---- MODULE Spec2Model ----
(***************************************************************************)
(* sqlpro: the handle and transaction manager (transaction.go,             *)
(* exec_func.go), the write paths of exec.go and QueryContext of           *)
(* wrapper.go, as a state machine of goroutines that share one pool        *)
(* handle obtained from Open.                                              *)
(*                                                                         *)
(* The SQL driver and the database are the environment.  A driver call     *)
(* either succeeds or returns an error, chosen nondeterministically.  The  *)
(* one rule of the database that is modelled is SQLite's RESERVED lock:    *)
(* BEGIN IMMEDIATE succeeds only while no other connection holds the lock, *)
(* and the lock is given up when the driver commits or rolls back.         *)
(***************************************************************************)
EXTENDS Integers, Sequences, FiniteSets, TLC

\* ---------------------------------------------------------------- bounds
NumProcs == 2       \* goroutines
MaxCalls == 2       \* Begin* / ExecTX calls made in one run (one handle each)
MaxOps == 1         \* statements sent on the handle of one transaction
MaxHooks == 3       \* statements and hook registrations made in one transaction
MaxRows == 2        \* records in a slice passed to Insert/Update/Save
MaxStmts == 2       \* Query/Exec calls goroutines make on one shared transaction handle
MaxSql == 3         \* runes of a statement given to replaceArgs
MaxArgs == 2        \* arguments given to replaceArgs
MaxElems == 2       \* elements of a slice argument
MaxPlaceholder == 1 \* db.MaxPlaceholder (100 after newSqlPro), scaled to the slices above

Procs == 1..NumProcs
Handles == Procs          \* goroutine g keeps the handle of its latest call in tx[g]

\* ------------------------------------------------------------- constants
SQLITE3 == "sqlite3"
POSTGRES == "postgres"
Drivers == {SQLITE3, POSTGRES}

QUESTION == "QUESTION"
DOLLAR == "DOLLAR"
PlaceholderValue == "?"
PlaceholderKey == "@"

NoErr == <<>>

VARIABLES
    dbConn,         \* the pool handle returned by Open (type db)
    txBeginMtx,     \* dbConn.txBeginMtx: 0 when unlocked, else the goroutine that locked it
    sqliteReserved, \* the database's RESERVED lock: 0, or the handle whose transaction holds it
    tx,             \* tx[h]: the db struct of transaction handle h (db2 of txBeginContext)
    handed,         \* the handles txBeginContext has returned to its caller
    pc,             \* pc[g]: where goroutine g is
    call,           \* call[g]: the locals of the call goroutine g is in
    nCalls,         \* number of Begin*/ExecTX calls made so far
    ev              \* what the last step returned to its caller (history, not program state)

vars == <<dbConn, txBeginMtx, sqliteReserved, tx, handed, pc, call, nCalls, ev>>

\* ------------------------------------------------------------ the handle

\* newSqlPro and Open: the pool handle for a driver.
Open(drv) ==
    [ driver |-> drv,
      db |-> "pool",                 \* the executor: the pool or a transaction
      sqlTx |-> FALSE,               \* sqlTx != nil
      txWriteMode |-> FALSE,
      txAfterCommit |-> <<>>,
      txAfterRollback |-> <<>>,
      txExecQueryMtx |-> FALSE,      \* txExecQueryMtx != nil
      holder |-> 0,                  \* the goroutine that has locked *txExecQueryMtx, or 0
      stmts |-> 0,                   \* Query/Exec calls by goroutines sharing the handle
      acquired |-> <<>>,             \* those calls, in the order they locked the mutex
      effects |-> <<>>,              \* those calls, in the order the driver ran them
      driverConn |-> FALSE,          \* driverConn != nil
      PlaceholderMode |-> (IF drv = POSTGRES THEN DOLLAR ELSE QUESTION),
      MaxPlaceholder |-> MaxPlaceholder,
      UseReturningForLastId |-> (drv = POSTGRES),
      SupportsLastInsertId |-> (drv = SQLITE3) ]

\* ActiveTX: false on a nil handle (h = 0), else sqlTx != nil.
ActiveTX(h) == IF h = 0 THEN FALSE ELSE tx[h].sqlTx

IsWriteMode(h) == tx[h].txWriteMode

\* The locals of a Begin* or ExecTX call.
NoCall ==
    [ kind |-> "none",          \* "Begin" or "ExecTX"
      h |-> 0,                  \* the handle this call creates
      ro |-> FALSE,             \* topts != nil && topts.ReadOnly
      ctxDone |-> FALSE,        \* ctx.Done() was closed when ExecTX was called
      ctxTX |-> 0,              \* the handle ctx carries (CtxWithTX), 0 for none
      ctxTXActive |-> FALSE,    \* CtxTX(ctx).ActiveTX() held when ExecTX was called
      err |-> NoErr,            \* err, as the list of the errors wrapped in it
      ops |-> 0,                \* statements and hook registrations made on the handle
      on |-> 0,                 \* the handle a Query/Exec of the goroutine runs on
      stmt |-> 0,               \* that call, by its number on the handle
      op |-> "none",            \* that call: "Query" or "Exec"
      sql |-> <<>>,             \* replaceArgs: sqlS, as its runes
      args |-> <<>>,            \* replaceArgs: args
      data |-> <<>>,            \* the records the caller passes to Insert, Update, Save
      first |-> <<>> ]          \* what the first of two calls on those records did

\* What a call handed back: filled in by the step that returns, for one state.
NoEv ==
    [ kind |-> "none",          \* "Begin", "ExecTX", "Commit", "Rollback", "op"
      g |-> 0, h |-> 0,
      err |-> NoErr,            \* the error returned, as the list of the errors wrapped in it
      ctxDone |-> FALSE,        \* ExecTX: ctx was done at the call
      ctxTX |-> 0,              \* ExecTX: the handle ctx carried, 0 for none
      ctxTXActive |-> FALSE,    \* ExecTX: that handle was active at the call
      conn |-> 0,               \* ExecTX: connections acquired with sqlDB.Conn
      closed |-> 0,             \* ExecTX: conn.Close calls made
      closeFailed |-> FALSE,    \* ExecTX: conn.Close returned an error
      begun |-> FALSE,          \* ExecTX: txBeginContext returned a handle
      job |-> "none",           \* ExecTX: how job ended: "nil", "err", "panic"
      ended |-> "none",         \* the method that ended the transaction: "Commit", "Rollback"
      driverOk |-> FALSE,       \* the driver's commit or rollback succeeded
      firedCommit |-> <<>>,     \* hooks run out of txAfterCommit, in order
      firedRollback |-> <<>>,   \* hooks run out of txAfterRollback, in order
      propagated |-> FALSE,     \* a panic left the call
      called |-> FALSE,         \* the driver's commit or rollback was called
      hook |-> 0,               \* the hook a registration call was given
      op |-> "none",            \* op: the operation
      active |-> FALSE,         \* op: the handle had a transaction
      wmode |-> FALSE,          \* op: the handle's txWriteMode
      empty |-> FALSE,          \* op: the data was a slice without elements
      clean |-> FALSE,          \* op: the data was well-formed and the driver succeeded
      sent |-> 0,               \* op: statements that reached the driver
      dest |-> "none",          \* Query: the kind of destination
      rows |-> 0,               \* Query: rows in the result set
      len0 |-> 0,               \* Query: length of a slice destination at the call
      len |-> 0,                \* Query: length of a slice destination at the return
      iter |-> 0,               \* Query: iterators the driver handed out
      iterClosed |-> 0,         \* Query: rows.Close calls made by QueryContext
      stored |-> FALSE,         \* Query: the iterator was stored in the destination
      read |-> 0,               \* Query: rows read from the iterator by QueryContext
      out |-> <<>>,             \* replaceArgs: the statement returned, as its pieces
      newArgs |-> <<>>,         \* replaceArgs: the argument list returned
      scalars |-> 0,            \* replaceArgs: scalar arguments used at a value placeholder
      elems |-> 0,              \* replaceArgs: elements of the slices that were expanded
      sql |-> <<>>,             \* replaceArgs: the statement it was given
      args |-> <<>>,            \* replaceArgs: the arguments it was given
      used |-> 0,               \* replaceArgs: nthArg when it returned
      nth |-> 0,                \* write: the first or the second call on the records
      data0 |-> <<>>,           \* write: the records at the call
      data |-> <<>>,            \* write: the records at the return
      stmts |-> <<>> ]          \* write: the statements sent to the driver, in order

Init ==
    /\ dbConn \in {Open(drv) : drv \in Drivers}
    /\ txBeginMtx = 0
    /\ sqliteReserved = 0
    /\ tx = [h \in Handles |-> Open(dbConn.driver)]
    /\ handed = {}
    /\ pc = [g \in Procs |-> "idle"]
    /\ call = [g \in Procs |-> NoCall]
    /\ nCalls = 0
    /\ ev = NoEv

\* ------------------------------------------------------- txBeginContext

\* wMode := topts == nil || !topts.ReadOnly
WModeOf(ro) == ~ro

LocksBeginMtx_Never(wMode, drv) == FALSE

LocksBeginMtx_Always(wMode, drv) == TRUE

\* if wMode && db3.driver == SQLITE3 { db2.txBeginMtx.Lock() }
LocksBeginMtx(wMode, drv) == wMode /\ drv = SQLITE3

\* The first "if err != nil" after BeginTx returns without unlocking; the
\* second one, which unlocks, is never reached with err != nil.
UnlocksOnBeginError(wMode, drv) == FALSE

IssuesBeginImmediate_Never(wMode, drv) == FALSE

\* if wMode && db3.driver == SQLITE3 { ExecContext("ROLLBACK; BEGIN IMMEDIATE") }
IssuesBeginImmediate(wMode, drv) == wMode /\ drv = SQLITE3

\* No statement is running on the handle that goroutine g got from its last
\* call: the model can keep g's next handle in its place.
SlotFree(g) == \A q \in Procs : call[q].on # g

\* Begin, BeginRead, BeginContext on the pool handle.
BeginCall(g, ro) ==
    /\ pc[g] = "idle"
    /\ nCalls < MaxCalls
    /\ SlotFree(g)
    /\ ~dbConn.sqlTx
    /\ nCalls' = nCalls + 1
    /\ call' = [call EXCEPT ![g] = [NoCall EXCEPT !.kind = "Begin", !.h = g, !.ro = ro]]
    /\ handed' = handed \ {g}
    /\ pc' = [pc EXCEPT ![g] = "b_lock"]
    /\ ev' = NoEv
    /\ UNCHANGED <<dbConn, txBeginMtx, sqliteReserved, tx>>

HandleCopy_KeepsHooks(pool, prev) ==
    [pool EXCEPT !.txExecQueryMtx = TRUE,
                 !.txAfterCommit = prev.txAfterCommit,
                 !.txAfterRollback = prev.txAfterRollback]

\* db2 := *db3; db2.txExecQueryMtx = &sync.Mutex{}: the new handle is a copy of
\* the pool handle, whatever handle prev the caller got from an earlier begin.
HandleCopy(pool, prev) == [pool EXCEPT !.txExecQueryMtx = TRUE]

\* db2 := *db3; db2.txExecQueryMtx = &sync.Mutex{}; the conditional Lock().
TxBeginLock(g) ==
    /\ pc[g] = "b_lock"
    /\ LET wMode == WModeOf(call[g].ro) IN
        /\ IF LocksBeginMtx(wMode, dbConn.driver)
              THEN txBeginMtx = 0 /\ txBeginMtx' = g
              ELSE UNCHANGED txBeginMtx
        /\ tx' = [tx EXCEPT ![call[g].h] = HandleCopy(dbConn, tx[call[g].h])]
    /\ pc' = [pc EXCEPT ![g] = "b_driver"]
    /\ ev' = NoEv
    /\ UNCHANGED <<dbConn, sqliteReserved, handed, call, nCalls>>

PoolAfterBegin_Aliased(d, wMode) ==
    [d EXCEPT !.sqlTx = TRUE, !.db = "tx", !.txWriteMode = wMode]

\* db2 := *db3: sqlTx, db and txWriteMode are assigned in the copy, so the pool
\* handle db3 is after the assignments what it was before.
PoolAfterBegin(d, wMode) == d

\* conn.BeginTx / sqlDB.BeginTx and the code up to db2.txWriteMode = wMode.
TxBeginDriver(g) ==
    /\ pc[g] = "b_driver"
    /\ LET wMode == WModeOf(call[g].ro)
           h == call[g].h
       IN \E ok \in BOOLEAN :
           IF ok
           THEN /\ tx' = [tx EXCEPT ![h] = [tx[h] EXCEPT !.sqlTx = TRUE, !.db = "tx",
                                                        !.txWriteMode = wMode]]
                /\ dbConn' = PoolAfterBegin(dbConn, wMode)
                /\ pc' = [pc EXCEPT ![g] =
                            IF LocksBeginMtx(wMode, dbConn.driver)
                            THEN "b_imm" ELSE "b_ret"]
                /\ UNCHANGED <<txBeginMtx, call>>
           ELSE /\ txBeginMtx' = IF LocksBeginMtx(wMode, dbConn.driver)
                                    /\ UnlocksOnBeginError(wMode, dbConn.driver)
                                 THEN 0 ELSE txBeginMtx
                /\ call' = [call EXCEPT ![g].err = <<"begin">>]
                /\ pc' = [pc EXCEPT ![g] = "b_ret"]
                /\ UNCHANGED <<tx, dbConn>>
    /\ ev' = NoEv
    /\ UNCHANGED <<sqliteReserved, handed, nCalls>>

\* db2.db.ExecContext(ctx, "ROLLBACK; BEGIN IMMEDIATE") and both Unlock()s.
\* The statement succeeds only while no other transaction holds the lock.
TxBeginImmediate(g) ==
    /\ pc[g] = "b_imm"
    /\ IF IssuesBeginImmediate(WModeOf(call[g].ro), dbConn.driver)
       THEN \E ok \in BOOLEAN :
                /\ ok => sqliteReserved = 0
                /\ IF ok
                   THEN /\ sqliteReserved' = call[g].h
                        /\ UNCHANGED call
                   ELSE /\ call' = [call EXCEPT ![g].err = <<"immediate">>]
                        /\ UNCHANGED sqliteReserved
       ELSE UNCHANGED <<call, sqliteReserved>>
    /\ txBeginMtx' = 0
    /\ pc' = [pc EXCEPT ![g] = "b_ret"]
    /\ ev' = NoEv
    /\ UNCHANGED <<dbConn, tx, handed, nCalls>>

\* return &db2, nil / return nil, err: back in Begin, BeginRead or BeginContext.
BeginReturn(g) ==
    /\ pc[g] = "b_ret"
    /\ call[g].kind = "Begin"
    /\ ev' = [NoEv EXCEPT !.kind = "Begin", !.g = g, !.h = call[g].h, !.err = call[g].err,
                          !.begun = (call[g].err = NoErr)]
    /\ IF call[g].err = NoErr
       THEN /\ handed' = handed \cup {call[g].h}
            /\ pc' = [pc EXCEPT ![g] = "t_use"]
            /\ UNCHANGED call
       ELSE /\ call' = [call EXCEPT ![g] = NoCall]
            /\ pc' = [pc EXCEPT ![g] = "idle"]
            /\ UNCHANGED handed
    /\ UNCHANGED <<dbConn, txBeginMtx, sqliteReserved, tx, nCalls>>

\* ------------------------------------------------------ Commit, Rollback

\* Commit and Rollback set db2.sqlTx = nil whatever the driver answered.
EndTx(h) == [tx EXCEPT ![h].sqlTx = FALSE]

HooksRun_Always(queue, ok) == queue

HooksRun_Reversed(queue, ok) ==
    IF ok THEN [i \in 1..Len(queue) |-> queue[Len(queue) + 1 - i]] ELSE <<>>

\* for _, f := range queue { f() }, reached only when the driver call succeeded.
HooksRun(queue, ok) == IF ok THEN queue ELSE <<>>

\* The database gives up the lock of a transaction when the driver ends it; the
\* transaction of h holds the lock only if its BEGIN IMMEDIATE succeeded.
ReleaseReserved(h) ==
    IF sqliteReserved = h /\ IssuesBeginImmediate(tx[h].txWriteMode, tx[h].driver)
    THEN 0 ELSE sqliteReserved

\* What Commit (how = "Commit") or Rollback of handle h adds to the record e.
Ended(e, h, how, ok) ==
    [e EXCEPT !.ended = how, !.driverOk = ok, !.called = TRUE,
              !.firedCommit = IF how = "Commit" THEN HooksRun(tx[h].txAfterCommit, ok) ELSE <<>>,
              !.firedRollback = IF how = "Rollback" THEN HooksRun(tx[h].txAfterRollback, ok)
                                ELSE <<>>]

\* Commit on a handle obtained from Begin*.
Commit(g) ==
    /\ pc[g] = "t_use"
    /\ tx[call[g].h].sqlTx
    /\ \E ok \in BOOLEAN :
        ev' = Ended([NoEv EXCEPT !.kind = "Commit", !.g = g, !.h = call[g].h,
                                 !.err = IF ok THEN NoErr ELSE <<"commit">>],
                    call[g].h, "Commit", ok)
    /\ tx' = EndTx(call[g].h)
    /\ sqliteReserved' = ReleaseReserved(call[g].h)
    /\ call' = [call EXCEPT ![g] = NoCall]
    /\ pc' = [pc EXCEPT ![g] = "idle"]
    /\ UNCHANGED <<dbConn, txBeginMtx, handed, nCalls>>

\* Rollback on a handle obtained from Begin*.
Rollback(g) ==
    /\ pc[g] = "t_use"
    /\ tx[call[g].h].sqlTx
    /\ \E ok \in BOOLEAN :
        ev' = Ended([NoEv EXCEPT !.kind = "Rollback", !.g = g, !.h = call[g].h,
                                 !.err = IF ok THEN NoErr ELSE <<"rollback">>],
                    call[g].h, "Rollback", ok)
    /\ tx' = EndTx(call[g].h)
    /\ sqliteReserved' = ReleaseReserved(call[g].h)
    /\ call' = [call EXCEPT ![g] = NoCall]
    /\ pc' = [pc EXCEPT ![g] = "idle"]
    /\ UNCHANGED <<dbConn, txBeginMtx, handed, nCalls>>

\* ---------------------------------------------------------------- hooks

\* The goroutine holds a handle it may use: between Begin* and Commit/Rollback,
\* or inside job of ExecTX.
InTx(g) == pc[g] \in {"t_use", "x_job"}

CanOp(g) == InTx(g) /\ call[g].ops < MaxOps /\ tx[call[g].h].sqlTx

\* A hook can be registered: the handle is in use and its transaction is open.
CanHook(g) == InTx(g) /\ call[g].ops < MaxHooks /\ tx[call[g].h].sqlTx

\* The record of a hook registration of goroutine g.
HookEv(g, how) ==
    [NoEv EXCEPT !.kind = how, !.g = g, !.h = call[g].h, !.hook = call[g].ops + 1]

\* AfterCommit(f); f is named by the number of the registration.
AfterCommit(g) ==
    /\ CanHook(g)
    /\ tx' = [tx EXCEPT ![call[g].h].txAfterCommit = Append(@, call[g].ops + 1)]
    /\ call' = [call EXCEPT ![g].ops = @ + 1]
    /\ ev' = HookEv(g, "AfterCommit")
    /\ UNCHANGED <<dbConn, txBeginMtx, sqliteReserved, handed, pc, nCalls>>

\* AfterRollback(f)
AfterRollback(g) ==
    /\ CanHook(g)
    /\ tx' = [tx EXCEPT ![call[g].h].txAfterRollback = Append(@, call[g].ops + 1)]
    /\ call' = [call EXCEPT ![g].ops = @ + 1]
    /\ ev' = HookEv(g, "AfterRollback")
    /\ UNCHANGED <<dbConn, txBeginMtx, sqliteReserved, handed, pc, nCalls>>

AfterTransaction_CommitOnly(g) ==
    /\ CanHook(g)
    /\ tx' = [tx EXCEPT ![call[g].h].txAfterCommit = Append(@, call[g].ops + 1)]
    /\ call' = [call EXCEPT ![g].ops = @ + 1]
    /\ ev' = HookEv(g, "AfterTransaction")
    /\ UNCHANGED <<dbConn, txBeginMtx, sqliteReserved, handed, pc, nCalls>>

\* AfterTransaction(f): AfterCommit(f) and AfterRollback(f)
AfterTransaction(g) ==
    /\ CanHook(g)
    /\ tx' = [tx EXCEPT ![call[g].h].txAfterCommit = Append(@, call[g].ops + 1),
                        ![call[g].h].txAfterRollback = Append(@, call[g].ops + 1)]
    /\ call' = [call EXCEPT ![g].ops = @ + 1]
    /\ ev' = HookEv(g, "AfterTransaction")
    /\ UNCHANGED <<dbConn, txBeginMtx, sqliteReserved, handed, pc, nCalls>>

PanicsWithoutTx_Never(h) == FALSE

\* if db2.sqlTx == nil { panic(...) }: the first statement of Commit, Rollback,
\* AfterCommit, AfterRollback and AfterTransaction.
PanicsWithoutTx(h) == ~tx[h].sqlTx

EndedUses == {"Commit", "Rollback", "AfterCommit", "AfterRollback", "AfterTransaction"}

\* Goroutine g calls Commit, Rollback or a hook registration on the handle it
\* got from its last call, after the transaction of that handle has ended.
EndedUse(g, how) ==
    /\ pc[g] = "idle"
    /\ g \in handed
    /\ ~tx[g].sqlTx
    /\ LET e == [NoEv EXCEPT !.kind = how, !.g = g, !.h = g] IN
        IF PanicsWithoutTx(g)
        THEN /\ ev' = [e EXCEPT !.propagated = TRUE]
             /\ UNCHANGED tx
        ELSE /\ ev' = [e EXCEPT !.called = how \in {"Commit", "Rollback"}]
             /\ tx' = [tx EXCEPT
                        ![g].txAfterCommit =
                            IF how \in {"AfterCommit", "AfterTransaction"}
                            THEN Append(@, 0) ELSE @,
                        ![g].txAfterRollback =
                            IF how \in {"AfterRollback", "AfterTransaction"}
                            THEN Append(@, 0) ELSE @]
    /\ UNCHANGED <<dbConn, txBeginMtx, sqliteReserved, handed, pc, call, nCalls>>

\* --------------------------------------------------------------- ExecTX

RejectsDoneCtx_Never(done) == FALSE

\* select { case <-ctx.Done(): return errors.New(...); default: }
RejectsDoneCtx(done) == done

RejectsNested_Never(h) == FALSE

\* if CtxTX(ctx).ActiveTX() { return errors.New(...) }
RejectsNested(h) == ActiveTX(h)

ClosesConn_NotOnPanic(acquired, panicking) == acquired > 0 /\ ~panicking

\* defer func() { err2 := conn.Close() ... }() is set up once Conn succeeded
\* and runs on every way out, a panic included.
ClosesConn(acquired, panicking) == acquired > 0

ErrAfterClose_Dropped(err, closeOk) == err

\* err = fmt.Errorf("%w close: %w", err, err2) when conn.Close fails.
ErrAfterClose(err, closeOk) == IF closeOk THEN err ELSE err \o <<"close">>

Recovered_Not(panicking) == FALSE

\* r := recover(); if r == nil { return }: the first deferred function stops a panic.
Recovered(panicking) == panicking

\* err = fmt.Errorf("sqlpro.ExecTX: panic caught: %v", r)
ErrAfterRecover(err, panicking) == IF Recovered(panicking) THEN <<"panic">> ELSE err

\* The deferred functions of ExecTX, the last one set up first, applied to what
\* the body left in e; closeOk is the outcome of conn.Close.
DeferredReturn(e, closeOk) ==
    LET panicking == e.job = "panic"
        closes == ClosesConn(e.conn, panicking)
        err1 == IF closes THEN ErrAfterClose(e.err, closeOk) ELSE e.err
    IN  [e EXCEPT !.closed = IF closes THEN 1 ELSE 0,
                  !.closeFailed = closes /\ ~closeOk,
                  !.err = ErrAfterRecover(err1, panicking),
                  !.propagated = panicking /\ ~Recovered(panicking)]

\* The record of an ExecTX call of goroutine g with locals c.
ExecTXEv(g, c) ==
    [NoEv EXCEPT !.kind = "ExecTX", !.g = g, !.h = c.h, !.ctxDone = c.ctxDone,
                 !.ctxTX = c.ctxTX, !.ctxTXActive = c.ctxTXActive]

\* ExecTX(ctx, job, opts) on the pool handle, up to the call of txBeginContext:
\* the ctx.Done() check, the nesting check, sqlDB.Conn and conn.Raw.
ExecTX(g, ro, done, ctxTX) ==
    /\ pc[g] = "idle"
    /\ nCalls < MaxCalls
    /\ SlotFree(g)
    /\ ctxTX \in {0} \cup handed
    /\ ~dbConn.sqlTx
    /\ nCalls' = nCalls + 1
    /\ LET c == [NoCall EXCEPT !.kind = "ExecTX", !.h = g, !.ro = ro,
                               !.ctxDone = done, !.ctxTX = ctxTX,
                               !.ctxTXActive = ActiveTX(ctxTX)]
           e == ExecTXEv(g, c)
       IN \E connOk, rawOk, closeOk \in BOOLEAN :
            IF RejectsDoneCtx(done)
            THEN /\ ev' = DeferredReturn([e EXCEPT !.err = <<"ctx done">>], closeOk)
                 /\ UNCHANGED <<pc, call, handed>>
            ELSE IF RejectsNested(ctxTX)
            THEN /\ ev' = DeferredReturn([e EXCEPT !.err = <<"nested">>], closeOk)
                 /\ UNCHANGED <<pc, call, handed>>
            ELSE IF ~connOk
            THEN /\ ev' = DeferredReturn([e EXCEPT !.err = <<"conn">>], closeOk)
                 /\ UNCHANGED <<pc, call, handed>>
            ELSE IF ~rawOk
            THEN /\ ev' = DeferredReturn([e EXCEPT !.err = <<"raw">>, !.conn = 1], closeOk)
                 /\ UNCHANGED <<pc, call, handed>>
            ELSE /\ ev' = NoEv
                 /\ call' = [call EXCEPT ![g] = c]
                 /\ pc' = [pc EXCEPT ![g] = "b_lock"]
                 /\ handed' = handed \ {g}
    /\ UNCHANGED <<dbConn, txBeginMtx, sqliteReserved, tx>>

\* rollback(tx, err): the error of tx.Rollback() is appended to err.
RollbackErr(err, ok) == IF ok THEN err ELSE err \o <<"rollback">>

\* commit(tx): the error of tx.Commit(), wrapped.
CommitErr(ok) == IF ok THEN NoErr ELSE <<"commit">>

\* txBeginContext has returned into ExecTX: on an error ExecTX returns it; else
\* tx.driverConn is set and, in write mode, the driver's default is set with
\* tx.ExecContext, whose failure ends in rollback(tx, err).
ExecTXBegun(g) ==
    /\ pc[g] = "b_ret"
    /\ call[g].kind = "ExecTX"
    /\ LET h == call[g].h
           e == [ExecTXEv(g, call[g]) EXCEPT !.conn = 1]
       IN \E defaultsOk, ok, closeOk \in BOOLEAN :
            IF call[g].err # NoErr
            THEN /\ ev' = DeferredReturn([e EXCEPT !.err = <<"begin">> \o call[g].err], closeOk)
                 /\ call' = [call EXCEPT ![g] = NoCall]
                 /\ pc' = [pc EXCEPT ![g] = "idle"]
                 /\ UNCHANGED <<tx, handed, sqliteReserved>>
            ELSE IF IsWriteMode(h) /\ ~defaultsOk
            THEN /\ ev' = DeferredReturn(
                             Ended([e EXCEPT !.begun = TRUE,
                                             !.err = RollbackErr(<<"defaults">>, ok)],
                                   h, "Rollback", ok), closeOk)
                 /\ tx' = [EndTx(h) EXCEPT ![h].driverConn = TRUE]
                 /\ sqliteReserved' = ReleaseReserved(h)
                 /\ handed' = handed \cup {h}
                 /\ call' = [call EXCEPT ![g] = NoCall]
                 /\ pc' = [pc EXCEPT ![g] = "idle"]
            ELSE /\ ev' = NoEv
                 /\ tx' = [tx EXCEPT ![h].driverConn = TRUE]
                 /\ handed' = handed \cup {h}
                 /\ pc' = [pc EXCEPT ![g] = "x_job"]
                 /\ UNCHANGED <<call, sqliteReserved>>
    /\ UNCHANGED <<dbConn, txBeginMtx, nCalls>>

AfterJob_ErrCommits(outcome) ==
    CASE outcome = "nil" -> "commit"
      [] outcome = "err" -> "commit"
      [] outcome = "panic" -> "unwind"

\* err = job(CtxWithTX(ctx, tx)): on an error rollback(tx, err), on nil
\* commit(tx); a panic unwinds ExecTX and runs only the deferred functions.
AfterJob(outcome) ==
    CASE outcome = "nil" -> "commit"
      [] outcome = "err" -> "rollback"
      [] outcome = "panic" -> "unwind"

JobOutcomes == {"nil", "err", "panic"}

\* job returns nil, returns an error or panics, and ExecTX runs to its return.
JobEnd(g, outcome) ==
    /\ pc[g] = "x_job"
    /\ tx[call[g].h].sqlTx
    /\ LET h == call[g].h
           e == [ExecTXEv(g, call[g]) EXCEPT !.conn = 1, !.begun = TRUE, !.job = outcome]
           how == AfterJob(outcome)
       IN \E ok, closeOk \in BOOLEAN :
            /\ ev' = DeferredReturn(
                        CASE how = "commit" ->
                                Ended([e EXCEPT !.err = CommitErr(ok)], h, "Commit", ok)
                          [] how = "rollback" ->
                                Ended([e EXCEPT !.err = RollbackErr(<<"job">>, ok)],
                                      h, "Rollback", ok)
                          [] how = "unwind" -> e,
                        closeOk)
            /\ tx' = IF how = "unwind" THEN tx ELSE EndTx(h)
            /\ sqliteReserved' = IF how = "unwind" THEN sqliteReserved ELSE ReleaseReserved(h)
    /\ call' = [call EXCEPT ![g] = NoCall]
    /\ pc' = [pc EXCEPT ![g] = "idle"]
    /\ UNCHANGED <<dbConn, txBeginMtx, handed, nCalls>>

\* ------------------------------------------------- Exec, Insert, Update

\* The data passed to Insert, Update or Save: its shape (checkData) and what
\* the write paths read from the record type and the record's pk field.
Shapes ==
    {[shape |-> "struct", n |-> 1], [shape |-> "other", n |-> 0]}
        \cup {[shape |-> "slice", n |-> k] : k \in 0..MaxRows}

Recs ==
    {r \in [pk : {"none", "one", "many"},   \* fields tagged pk in the record type
            pkZero : BOOLEAN,               \* the pk field holds its zero value
            omitempty : BOOLEAN,            \* the pk field is tagged omitempty
            allowNull : BOOLEAN,            \* fieldInfo.allowNull() of the pk field
            badJson : BOOLEAN] :            \* json.Marshal of a json field fails
        /\ r.pk = "none" => ~r.pkZero
        /\ ~r.pkZero => ~r.omitempty /\ ~r.allowNull}

\* What the driver answers to one statement: -1 an error, else the rows affected
\* (for a query: the rows returned).
Answers == {-1, 0, 1}
BulkAnswers == -1..MaxRows

\* The outcome of an operation: the error and the statements sent to the driver.
Out(err, sent) == [err |-> err, sent |-> sent]

\* checkData: a struct, a slice of structs, or an error.
checkData(d) == IF d.shape = "other" THEN <<"data">> ELSE NoErr

\* valuesFromStruct: a field is left out when it is zero and omitempty.
PkInValues(r) == r.pk # "none" /\ ~(r.pkZero /\ r.omitempty)

\* nullValue: a zero value of a field that allows NULL becomes nil.
PkIsNil(r) == r.pkZero /\ r.allowNull

ReadOnlyViolation_Never(h) == FALSE

\* if db.sqlTx != nil && !db.txWriteMode { return ... "read-only transaction" }
ReadOnlyViolation(h) == tx[h].sqlTx /\ ~tx[h].txWriteMode

\* execContext: the read-only check, replaceArgs when there are arguments, then
\* the driver's ExecContext.  a is the driver's answer; rows is what it reports.
execContext(h, argsOk, a) ==
    IF ReadOnlyViolation(h) THEN [err |-> <<"readonly">>, sent |-> 0, rows |-> 0]
    ELSE IF ~argsOk THEN [err |-> <<"args">>, sent |-> 0, rows |-> 0]
    ELSE IF a = -1 THEN [err |-> <<"driver">>, sent |-> 1, rows |-> 0]
    ELSE [err |-> NoErr, sent |-> 1, rows |-> a]

Mismatch_TooFew(e, want) ==
    IF e.err = NoErr /\ e.rows < want THEN Out(<<"mismatch">>, e.sent) ELSE Out(e.err, e.sent)

\* err == nil && rowsAffected != want  =>  ErrMismatchedRowsAffected
Mismatch(e, want) ==
    IF e.err = NoErr /\ e.rows # want THEN Out(<<"mismatch">>, e.sent) ELSE Out(e.err, e.sent)

\* QueryContext into a scalar destination: replaceArgs, the driver's
\* QueryContext, Scan of the first row.
queryScalar(h, argsOk, a) ==
    IF ~argsOk THEN Out(<<"args">>, 0)
    ELSE IF a = -1 THEN Out(<<"driver">>, 1)
    ELSE IF a = 0 THEN Out(<<"zero rows">>, 1)
    ELSE Out(NoErr, 1)

\* The destinations of a query: a scalar, a struct, a slice, or a *sql.Rows
\* (each passed by reference).
Dests == {"scalar", "struct", "slice", "rows"}

\* What the driver answers to a query: -1 an error, else the rows of the result.
QueryAnswers == -1..MaxRows

\* if targetValue.Type().Kind() != reflect.Slice { rowMode = true }
rowMode(dest) == dest # "slice"

\* Scan(target, rows): in row mode the first row is scanned and no row is
\* ErrQueryReturnedZeroRows; in slice mode every row is appended to the slice.
\* scanOk is whether scanRow succeeds (it is first called on the first row).
Scan(dest, len0, n, scanOk) ==
    IF n > 0 /\ ~scanOk THEN [err |-> <<"scan">>, len |-> len0, read |-> 1]
    ELSE IF rowMode(dest)
    THEN IF n = 0 THEN [err |-> <<"zero rows">>, len |-> len0, read |-> 0]
         ELSE [err |-> NoErr, len |-> len0, read |-> 1]
    ELSE [err |-> NoErr, len |-> len0 + n, read |-> n]

debugError_Wraps(err) == <<"debug">> \o err

\* debugError(err) records the error and returns it as it is.
debugError(err) == err

ReturnsOpenRows_Never(dest) == FALSE

\* switch target.(type) { case **sql.Rows: ...Set(rows); return nil }
ReturnsOpenRows(dest) == dest = "rows"

\* QueryContext: replaceArgs, the driver's QueryContext, then either the
\* iterator is handed to the caller or it is scanned and closed (defer).
QueryContext(h, dest, len0, argsOk, a, scanOk) ==
    LET q == [err |-> NoErr, sent |-> 0, dest |-> dest, rows |-> 0, len0 |-> len0,
              len |-> len0, iter |-> 0, iterClosed |-> 0, stored |-> FALSE, read |-> 0]
    IN  IF ~argsOk THEN [q EXCEPT !.err = <<"args">>]
        ELSE IF a = -1 THEN [q EXCEPT !.err = <<"driver">>, !.sent = 1]
        ELSE IF ReturnsOpenRows(dest)
        THEN [q EXCEPT !.sent = 1, !.rows = a, !.iter = 1, !.stored = TRUE]
        ELSE LET sc == Scan(dest, len0, a, scanOk)
             IN  [q EXCEPT !.sent = 1, !.rows = a, !.iter = 1, !.iterClosed = 1,
                           !.err = IF sc.err # NoErr THEN debugError(sc.err) ELSE NoErr,
                           !.len = sc.len, !.read = sc.read]

\* insertStruct: INSERT ... RETURNING through QueryContext when the handle uses
\* RETURNING and the type has one pk, else through execContext.
insertStruct(h, r, a) ==
    IF r.badJson THEN Out(<<"values">>, 0)
    ELSE IF tx[h].UseReturningForLastId /\ r.pk = "one"
    THEN IF ReadOnlyViolation(h) THEN Out(<<"readonly">>, 0)
         ELSE queryScalar(h, TRUE, a)
    ELSE Mismatch(execContext(h, TRUE, a), 1)

\* updateClauseFromRow: fails when a pk value is nil or no pk column is present.
updateClauseFromRow(r) ==
    IF r.badJson THEN <<"values">>
    ELSE IF PkInValues(r) /\ PkIsNil(r) THEN <<"nil key">>
    ELSE IF ~PkInValues(r) THEN <<"no key">>
    ELSE NoErr

\* One UPDATE of UpdateContext.
updateStruct(h, r, a) ==
    IF updateClauseFromRow(r) # NoErr THEN Out(updateClauseFromRow(r), 0)
    ELSE Mismatch(execContext(h, TRUE, a), 1)

\* saveRow: Insert when the only pk is missing or zero, else Update.
saveRow(h, r, a) ==
    IF r.badJson THEN Out(<<"values">>, 0)
    ELSE IF r.pk # "one" THEN Out(<<"save pk">>, 0)
    ELSE IF ~PkInValues(r) \/ r.pkZero THEN insertStruct(h, r, a)
    ELSE updateStruct(h, r, a)

\* for i := 0; i < rv.Len(); i++ { ...; if err != nil { return err } }
RECURSIVE EachRow(_)
EachRow(outs) ==
    IF outs = <<>> THEN Out(NoErr, 0)
    ELSE IF Head(outs).err # NoErr THEN Head(outs)
    ELSE LET rest == EachRow(Tail(outs))
         IN  Out(rest.err, Head(outs).sent + rest.sent)

\* InsertContext: one INSERT for a struct, one per element for a slice; as[i]
\* is the driver's answer to the i-th statement.
InsertContext(h, d, r, as) ==
    IF checkData(d) # NoErr THEN Out(checkData(d), 0)
    ELSE EachRow([i \in 1..d.n |-> insertStruct(h, r, as[i])])

\* UpdateContext: one UPDATE for a struct, one per element for a slice.
UpdateContext(h, d, r, as) ==
    IF checkData(d) # NoErr THEN Out(checkData(d), 0)
    ELSE EachRow([i \in 1..d.n |-> updateStruct(h, r, as[i])])

\* Save: saveRow for a struct, for each element of a slice.
Save(h, d, r, as) ==
    IF checkData(d) # NoErr THEN Out(checkData(d), 0)
    ELSE EachRow([i \in 1..d.n |-> saveRow(h, r, as[i])])

\* insertBulkContext: one INSERT with a VALUES list for the whole slice.
insertBulkContext(h, d, r, a, onConflictDoNothing) ==
    IF checkData(d) # NoErr THEN Out(checkData(d), 0)
    ELSE IF d.shape = "struct" THEN Out(<<"need slice">>, 0)
    ELSE IF d.n = 0 THEN Out(NoErr, 0)
    ELSE IF r.badJson THEN Out(<<"values">>, 0)
    ELSE LET e == execContext(h, TRUE, a)
         IN  IF onConflictDoNothing THEN Out(e.err, e.sent) ELSE Mismatch(e, d.n)

\* UpdateBulkContext: one script of UPDATE statements, sent with one Exec.
UpdateBulkContext(h, d, r, a) ==
    IF checkData(d) # NoErr THEN Out(checkData(d), 0)
    ELSE IF d.shape = "struct" THEN Out(<<"need slice">>, 0)
    ELSE IF d.n = 0 THEN Out(NoErr, 0)
    ELSE IF r.badJson THEN Out(<<"values">>, 0)
    ELSE IF PkInValues(r) /\ PkIsNil(r) THEN Out(<<"nil key">>, 0)
    ELSE Mismatch(execContext(h, TRUE, a), 1)

\* ExecContext and ExecContextRowsAffected: an empty statement is refused.
ExecContext(h, emptySql, argsOk, a) ==
    IF emptySql THEN Out(<<"empty query">>, 0)
    ELSE LET e == execContext(h, argsOk, a) IN Out(e.err, e.sent)

\* The record of an operation of goroutine g on its handle.
OpEv(g, op, d, out, clean) ==
    [NoEv EXCEPT !.kind = "op", !.g = g, !.h = call[g].h, !.op = op,
                 !.active = tx[call[g].h].sqlTx, !.wmode = tx[call[g].h].txWriteMode,
                 !.empty = (d.shape = "slice" /\ d.n = 0),
                 !.clean = clean, !.err = out.err, !.sent = out.sent]

\* An operation changes nothing but the count of operations made.
OpDone(g) ==
    /\ call' = [call EXCEPT ![g].ops = @ + 1]
    /\ UNCHANGED <<dbConn, txBeginMtx, sqliteReserved, tx, handed, pc, nCalls>>

NoData == [shape |-> "none", n |-> 0]

\* The driver's answers to the statements of the n rows of a slice.
AnswerSeqs(n) == [1..n -> Answers]

\* The record of a query of goroutine g with outcome q.
QueryEv(g, q, clean) ==
    [OpEv(g, "Query", NoData, q, clean) EXCEPT
        !.dest = q.dest, !.rows = q.rows, !.len0 = q.len0, !.len = q.len, !.iter = q.iter,
        !.iterClosed = q.iterClosed, !.stored = q.stored, !.read = q.read]

QueryOp(g) ==
    /\ CanOp(g)
    /\ \E dest \in Dests, len0 \in 0..MaxRows, argsOk, scanOk \in BOOLEAN, a \in QueryAnswers :
        /\ dest # "slice" => len0 = 0
        /\ ev' = QueryEv(g, QueryContext(call[g].h, dest, len0, argsOk, a, scanOk),
                         argsOk /\ scanOk /\ a >= 1)
    /\ OpDone(g)

ExecOp(g) ==
    /\ CanOp(g)
    /\ \E emptySql, argsOk \in BOOLEAN, a \in Answers :
        ev' = OpEv(g, "Exec", NoData, ExecContext(call[g].h, emptySql, argsOk, a),
                   ~emptySql /\ argsOk /\ a # -1)
    /\ OpDone(g)

ExecRowsAffectedOp(g) ==
    /\ CanOp(g)
    /\ \E emptySql, argsOk \in BOOLEAN, a \in Answers :
        ev' = OpEv(g, "ExecContextRowsAffected", NoData,
                   ExecContext(call[g].h, emptySql, argsOk, a),
                   ~emptySql /\ argsOk /\ a # -1)
    /\ OpDone(g)

InsertOp(g) ==
    /\ CanOp(g)
    /\ \E d \in Shapes, r \in Recs : \E as \in AnswerSeqs(d.n) :
        ev' = OpEv(g, "Insert", d, InsertContext(call[g].h, d, r, as), FALSE)
    /\ OpDone(g)

InsertBulkOp(g) ==
    /\ CanOp(g)
    /\ \E d \in Shapes, r \in Recs, a \in BulkAnswers, onConflictDoNothing \in BOOLEAN :
        ev' = OpEv(g, "InsertBulk", d,
                   insertBulkContext(call[g].h, d, r, a, onConflictDoNothing), FALSE)
    /\ OpDone(g)

UpdateOp(g) ==
    /\ CanOp(g)
    /\ \E d \in Shapes, r \in Recs : \E as \in AnswerSeqs(d.n) :
        ev' = OpEv(g, "Update", d, UpdateContext(call[g].h, d, r, as), FALSE)
    /\ OpDone(g)

UpdateBulkOp(g) ==
    /\ CanOp(g)
    /\ \E d \in Shapes, r \in Recs, a \in BulkAnswers :
        ev' = OpEv(g, "UpdateBulk", d, UpdateBulkContext(call[g].h, d, r, a), FALSE)
    /\ OpDone(g)

SaveOp(g) ==
    /\ CanOp(g)
    /\ \E d \in Shapes, r \in Recs : \E as \in AnswerSeqs(d.n) :
        ev' = OpEv(g, "Save", d, Save(call[g].h, d, r, as), FALSE)
    /\ OpDone(g)

\* ----------------------------------------------------------- replaceArgs

\* The runes of a statement: the two placeholders, a quote, and x for any other.
Quote == "'"
DQuote == "\""
Quotes == {Quote, DQuote}
Runes == {"x", PlaceholderValue, PlaceholderKey, Quote}

\* The runes of a statement that has both kinds of quoted strings.
QuotedRunes == Runes \cup Quotes

Sqls == UNION {[1..n -> Runes] : n \in 0..MaxSql}

\* Statements one rune longer, with both kinds of quoted strings.
QuotedSqls == UNION {[1..n -> QuotedRunes] : n \in 0..(MaxSql + 1)}

\* An argument: a string, another scalar, a []byte or json.RawMessage (a slice
\* the driver takes as one value), or a slice of n elements whose type can (lit)
\* or cannot be written as a literal.
ArgKinds ==
    {[k |-> "str", n |-> 0, lit |-> TRUE], [k |-> "val", n |-> 0, lit |-> TRUE],
     [k |-> "bytes", n |-> 0, lit |-> TRUE]}
        \cup {a \in [k : {"slice"}, n : 0..MaxElems, lit : BOOLEAN] :
                    a.n <= MaxPlaceholder => a.lit}

ArgLists == UNION {[1..n -> ArgKinds] : n \in 0..MaxArgs}

\* Lists of scalar arguments only.
ScalarLists == {a \in ArgLists : \A i \in 1..Len(a) : a[i].k # "slice"}

\* A piece of the rewritten statement: a rune copied from the input (t = "rune"),
\* an escaped identifier ("key"), a placeholder ("ph", with its number n; the
\* value it was written for is element elem of argument src), a literal
\* ("lit"), or the punctuation around a slice.
Piece(t, c, n, src, elem) == [t |-> t, c |-> c, n |-> n, src |-> src, elem |-> elem]

Copied(c) == Piece("rune", c, 0, 0, 0)

\* An entry of the rewritten argument list: element elem of argument src, or
\* argument src itself (elem = 0).
Item(src, elem) == [src |-> src, elem |-> elem]

appendPlaceholder_ZeroBased(mode, numArg, src, elem) ==
    IF mode = DOLLAR THEN Piece("ph", "$", numArg, src, elem)
    ELSE Piece("ph", "?", 0, src, elem)

\* appendPlaceholder(sb, numArg): "?" in QUESTION mode, "$" and numArg+1 in
\* DOLLAR mode.
appendPlaceholder(mode, numArg, src, elem) ==
    IF mode = DOLLAR THEN Piece("ph", "$", numArg + 1, src, elem)
    ELSE Piece("ph", "?", 0, src, elem)

\* The inner loop over a quoted string, at rune i: the rune the loop stops at,
\* the closing quote or the last rune; a doubled quote does not close.
QuotedEnd_AtOnce(sql, i, quoteChar) == i - 1

RECURSIVE QuotedEnd(_, _, _)
QuotedEnd(sql, i, quoteChar) ==
    IF i > Len(sql) THEN Len(sql)
    ELSE IF sql[i] = quoteChar
    THEN IF i + 1 <= Len(sql) /\ sql[i + 1] = quoteChar
         THEN QuotedEnd(sql, i + 2, quoteChar) ELSE i
    ELSE QuotedEnd(sql, i + 1, quoteChar)

SliceLen_OneShort(arg) == arg.n - 1

\* l := rv.Len(): the elements of a slice argument the loop goes through.
SliceLen(arg) == arg.n

\* The pieces for the elements of slice argument src of l elements, separated
\* by commas: literals if l > MaxPlaceholder, else placeholders numbered on
\* from the base arguments already in newArgs.
AsLiterals_FromThreshold(h, l) == l >= tx[h].MaxPlaceholder

\* if l > db2.MaxPlaceholder: the elements are written as literals.
AsLiterals(h, l) == l > tx[h].MaxPlaceholder

RECURSIVE SlicePieces(_, _, _, _, _, _)
SlicePieces(h, src, l, e, base, first) ==
    IF e > l THEN <<>>
    ELSE (IF first THEN <<>> ELSE <<Piece("comma", ",", 0, 0, 0)>>)
         \o <<IF AsLiterals(h, l) THEN Piece("lit", "", 0, src, e)
               ELSE appendPlaceholder(tx[h].PlaceholderMode, base, src, e)>>
         \o SlicePieces(h, src, l, e + 1,
                         IF AsLiterals(h, l) THEN base ELSE base + 1, FALSE)

\* The entries the elements of slice argument src add to newArgs.
SliceItems(h, src, l) ==
    IF AsLiterals(h, l) THEN <<>>
    ELSE [e \in 1..l |-> Item(src, e)]

\* How replaceArgs ends with an error: it returns "", nil, err.
Refused(err) ==
    [err |-> err, out |-> <<>>, newArgs |-> <<>>, scalars |-> 0, elems |-> 0, used |-> 0]

\* The loop of replaceArgs over the runes of sql, at rune i, with nthArg
\* arguments used and st holding sb, newArgs and what has been counted.
RECURSIVE replaceArgsFrom(_, _, _, _, _, _)
replaceArgsFrom(h, sql, args, i, nthArg, st) ==
    IF i > Len(sql)
    THEN [st EXCEPT !.newArgs = @ \o [p \in 1..(Len(args) - nthArg) |-> Item(nthArg + p, 0)],
                    !.used = nthArg]
    ELSE IF sql[i] \in Quotes
    THEN LET j == QuotedEnd(sql, i + 1, sql[i])
         IN  replaceArgsFrom(h, sql, args, j + 1, nthArg,
                [st EXCEPT !.out = @ \o [p \in 1..(j - i + 1) |-> Copied(sql[i + p - 1])]])
    ELSE IF sql[i] \notin {PlaceholderKey, PlaceholderValue}
    THEN replaceArgsFrom(h, sql, args, i + 1, nthArg,
                [st EXCEPT !.out = Append(@, Copied(sql[i]))])
    ELSE IF nthArg >= Len(args) THEN Refused(<<"missing arg">>)
    ELSE LET arg == args[nthArg + 1]
             src == nthArg + 1
         IN  IF sql[i] = PlaceholderKey
             THEN IF arg.k = "str"
                  THEN replaceArgsFrom(h, sql, args, i + 1, nthArg + 1,
                            [st EXCEPT !.out = Append(@, Piece("key", "", 0, src, 0))])
                  ELSE Refused(<<"key type">>)
             ELSE IF arg.k # "slice"
             THEN replaceArgsFrom(h, sql, args, i + 1, nthArg + 1,
                        [st EXCEPT !.newArgs = Append(@, Item(src, 0)),
                                   !.out = Append(@, appendPlaceholder(tx[h].PlaceholderMode,
                                                        Len(st.newArgs), src, 0)),
                                   !.scalars = @ + 1])
             ELSE IF arg.n = 0 THEN Refused(<<"empty slice">>)
             ELSE IF AsLiterals(h, SliceLen(arg)) /\ ~arg.lit THEN Refused(<<"slice type">>)
             ELSE replaceArgsFrom(h, sql, args, i + 1, nthArg + 1,
                        [st EXCEPT !.out = @ \o <<Piece("open", "(", 0, 0, 0)>>
                                            \o SlicePieces(h, src, SliceLen(arg), 1,
                                                           Len(st.newArgs), TRUE)
                                            \o <<Piece("close", ")", 0, 0, 0)>>,
                                   !.newArgs = @ \o SliceItems(h, src, SliceLen(arg)),
                                   !.elems = @ + arg.n])

\* replaceArgs(sqlS, args...) on handle h.
replaceArgs(h, sql, args) ==
    replaceArgsFrom(h, sql, args, 1, 0,
        [err |-> NoErr, out |-> <<>>, newArgs |-> <<>>, scalars |-> 0, elems |-> 0,
         used |-> 0])

\* Goroutine g calls replaceArgs on the handle of its slot.
ReplaceArgsCall(g) ==
    /\ pc[g] = "r_call"
    /\ LET r == replaceArgs(g, call[g].sql, call[g].args) IN
        ev' = [NoEv EXCEPT !.kind = "replaceArgs", !.g = g, !.h = g, !.err = r.err,
                           !.out = r.out, !.newArgs = r.newArgs,
                           !.scalars = r.scalars, !.elems = r.elems,
                           !.sql = call[g].sql, !.args = call[g].args, !.used = r.used]
    /\ call' = [call EXCEPT ![g] = NoCall]
    /\ pc' = [pc EXCEPT ![g] = "idle"]
    /\ UNCHANGED <<dbConn, txBeginMtx, sqliteReserved, tx, handed, nCalls>>

\* ------------------------------------------ Insert, Update, Save: records

\* The kind of the pk fields of a record type: int64, another integer kind
\* (int, int8 ... uint64), string, or a pointer.
KeyKinds == {"int64", "int", "string", "ptr"}

\* case reflect.Int, ..., reflect.Uint64
IntegerKinds == {"int64", "int"}

\* The value of a pk field: the zero value of its type (0, "", nil), a value the
\* caller has set, or (after an insert) the key the database has generated.
OwnKeys == {"zero", "own"}

\* The records passed to Insert, Update or Save: one struct or a slice, structs
\* or pointers to structs (byPtr), of a type with pks fields tagged pk; rows[i][c]
\* is the value of pk field c of record i.
WriteDatas ==
    {d \in [shape : {"struct", "slice"}, byPtr : BOOLEAN, pks : 0..2, kind : KeyKinds,
            omitempty : BOOLEAN,
            rows : UNION {[1..n -> UNION {[1..k -> OwnKeys] : k \in 0..2}] : n \in 0..MaxRows}] :
        /\ d.shape = "struct" => Len(d.rows) = 1
        /\ d.shape = "slice" => d.pks <= 1
        /\ d.pks = 0 => d.kind = "int64" /\ ~d.omitempty
        /\ \A i \in 1..Len(d.rows) : Len(d.rows[i]) = d.pks}

\* What the driver reports for one statement: -1 an error, else the rows
\* affected (for INSERT ... RETURNING: the rows returned).
RowCounts == -1..2

\* valuesFromStruct: the pk columns among the values; a field is left out when
\* it is zero and omitempty.
PkColumns(d, row) == {c \in 1..d.pks : ~(row[c] = "zero" /\ d.omitempty)}

\* nullValue of pk column c: nil for the zero value of a pointer field.
PkValueIsNil(d, row, c) == row[c] = "zero" /\ d.kind = "ptr"

\* The key of the row an INSERT stores: the value sent for the only pk column,
\* or one the database generates when the column is left out or NULL.
StoredKey(d, row) ==
    IF d.pks = 1 /\ 1 \in PkColumns(d, row) /\ ~PkValueIsNil(d, row, 1) THEN row[1] ELSE "gen"

\* A statement sent to the driver for record i: the pk columns in its column
\* or SET list, those in its WHERE clause with the values they are compared
\* to, what the driver reported, and the id it handed back.
Statement(verb, via, i, cols, where, reply, id) ==
    [verb |-> verb, via |-> via, row |-> i, cols |-> cols, where |-> where,
     reply |-> reply, id |-> id]

\* The outcome for one record: the error, the statements sent, the record.
RowOut(err, stmts, row) == [err |-> err, stmts |-> stmts, row |-> row]

\* insertStruct for one record, then the write-back of InsertContext if
\* writeBack holds.
InsertRecord(h, d, i, row, reply, writeBack) ==
    LET returning == tx[h].UseReturningForLastId /\ d.pks = 1
        e == IF returning
             THEN IF ReadOnlyViolation(h) THEN Out(<<"readonly">>, 0)
                  ELSE queryScalar(h, TRUE, reply)
             ELSE Mismatch(execContext(h, TRUE, reply), 1)
        id == IF returning THEN (IF d.kind = "string" THEN "zero" ELSE StoredKey(d, row))
              ELSE IF tx[h].SupportsLastInsertId THEN StoredKey(d, row)
              ELSE "zero"
        st == Statement("INSERT", IF returning THEN "query" ELSE "exec", i,
                        PkColumns(d, row), {}, reply, IF e.err = NoErr THEN id ELSE "zero")
    IN  RowOut(e.err,
               IF e.sent = 0 THEN <<>> ELSE <<st>>,
               IF e.err = NoErr /\ writeBack THEN [row EXCEPT ![1] = id] ELSE row)

WhereColumns_OnlyFirst(d, row) == PkColumns(d, row) \ {2}

\* updateClauseFromRow: the pk columns of the values go into the WHERE clause,
\* the other columns into the SET list.
WhereColumns(d, row) == PkColumns(d, row)

\* updateClauseFromRow and execContext for one record.
UpdateRecord(h, d, i, row, reply) ==
    IF \E c \in PkColumns(d, row) : PkValueIsNil(d, row, c) THEN RowOut(<<"nil key">>, <<>>, row)
    ELSE IF PkColumns(d, row) = {} THEN RowOut(<<"no key">>, <<>>, row)
    ELSE LET e == Mismatch(execContext(h, TRUE, reply), 1)
             st == Statement("UPDATE", "exec", i,
                             PkColumns(d, row) \ WhereColumns(d, row),
                             {<<c, row[c]>> : c \in WhereColumns(d, row)}, reply, "zero")
         IN  RowOut(e.err, IF e.sent = 0 THEN <<>> ELSE <<st>>, row)

WritesBack_Never(d, op) == FALSE

\* InsertContext: a struct gets the id if it is addressable and its only pk is
\* of an integer kind; an element of a slice gets it if its only pk is an
\* int64.  Save hands each record on to Insert as it got it: a struct or a
\* pointer to one.
WritesBack(d, op) ==
    /\ d.pks = 1
    /\ IF op = "Insert" /\ d.shape = "slice" THEN d.kind = "int64"
       ELSE d.byPtr /\ d.kind \in IntegerKinds

\* saveRow for one record: Insert when the only pk is left out or zero, else
\* Update.
SaveRecord(h, d, i, row, reply) ==
    IF d.pks # 1 THEN RowOut(<<"save pk">>, <<>>, row)
    ELSE IF 1 \notin PkColumns(d, row) \/ row[1] = "zero"
    THEN InsertRecord(h, d, i, row, reply, WritesBack(d, "Save"))
    ELSE UpdateRecord(h, d, i, row, reply)

WriteOpNames == {"Insert", "Update", "Save"}

\* What op does for record i.
WriteRecord(h, op, d, i, row, reply) ==
    IF op = "Insert" THEN InsertRecord(h, d, i, row, reply, WritesBack(d, "Insert"))
    ELSE IF op = "Update" THEN UpdateRecord(h, d, i, row, reply)
    ELSE SaveRecord(h, d, i, row, reply)

\* The loop of InsertContext, UpdateContext and Save over the records from
\* record i on: it returns at the first error.
RECURSIVE WriteFrom(_, _, _, _, _, _)
WriteFrom(h, op, d, i, replies, acc) ==
    IF i > Len(d.rows) THEN acc
    ELSE LET o == WriteRecord(h, op, d, i, acc.rows[i], replies[i])
             next == [err |-> o.err, stmts |-> acc.stmts \o o.stmts,
                      rows |-> [acc.rows EXCEPT ![i] = o.row]]
         IN  IF o.err # NoErr THEN next
             ELSE WriteFrom(h, op, d, i + 1, replies, next)

\* Insert, Update or Save of the records d on handle h.
WriteData(h, op, d, replies) ==
    WriteFrom(h, op, d, 1, replies, [err |-> NoErr, stmts |-> <<>>, rows |-> d.rows])

\* The outcomes of op on the records d, for all the driver may reply.
WriteOutcomes(h, op, d) ==
    {WriteData(h, op, d, replies) : replies \in [1..Len(d.rows) -> RowCounts]}

\* Goroutine g calls Insert, Update or Save with its records, for the first
\* (from = "w_1") or the second time.
WriteCall(g, from, to) ==
    /\ pc[g] = from
    /\ \E op \in WriteOpNames : \E r \in WriteOutcomes(g, op, call[g].data) :
         /\ ev' = [NoEv EXCEPT !.kind = "write", !.g = g, !.h = g, !.op = op,
                               !.nth = IF from = "w_1" THEN 1 ELSE 2,
                               !.err = r.err, !.stmts = r.stmts, !.data0 = call[g].data,
                               !.data = [call[g].data EXCEPT !.rows = r.rows]]
         /\ call' = [call EXCEPT ![g].data.rows = r.rows,
                                 ![g].first = IF from = "w_1"
                                              THEN [op |-> op, err |-> r.err,
                                                    stmts |-> r.stmts, data0 |-> call[g].data]
                                              ELSE @]
    /\ pc' = [pc EXCEPT ![g] = to]
    /\ UNCHANGED <<dbConn, txBeginMtx, sqliteReserved, tx, handed, nCalls>>

FirstWrite(g) == WriteCall(g, "w_1", "w_2")

SecondWrite(g) == WriteCall(g, "w_2", "idle")

\* ------------------------------------- Query and Exec on a shared handle

LocksExecQueryMtx_Never(h) == FALSE

\* if db2.txExecQueryMtx != nil { Lock(); defer Unlock() }
LocksExecQueryMtx(h) == tx[h].txExecQueryMtx

\* Goroutine g calls Query or Exec on transaction handle h, its own or one
\* another goroutine has begun and passed on.
SharedCall(g, h, op) ==
    /\ \/ pc[g] = "idle"
       \/ pc[g] = "t_use" /\ call[g].h = h
    /\ h \in handed
    /\ tx[h].sqlTx
    /\ tx[h].stmts < MaxStmts
    /\ tx' = [tx EXCEPT ![h].stmts = @ + 1]
    /\ call' = [call EXCEPT ![g].on = h, ![g].stmt = tx[h].stmts + 1, ![g].op = op]
    /\ pc' = [pc EXCEPT ![g] = "s_lock"]
    /\ ev' = NoEv
    /\ UNCHANGED <<dbConn, txBeginMtx, sqliteReserved, handed, nCalls>>

\* txExecQueryMtx.Lock() returns.
SharedLock(g) ==
    /\ pc[g] = "s_lock"
    /\ LET h == call[g].on IN
        /\ LocksExecQueryMtx(h) => tx[h].holder = 0
        /\ tx' = [tx EXCEPT ![h].holder = IF LocksExecQueryMtx(h) THEN g ELSE @,
                            ![h].acquired = Append(@, call[g].stmt)]
    /\ pc' = [pc EXCEPT ![g] = "s_drv"]
    /\ ev' = NoEv
    /\ UNCHANGED <<dbConn, txBeginMtx, sqliteReserved, handed, call, nCalls>>

\* The body of QueryContext or execContext: the driver runs the statement,
\* unless it is an Exec on a read-only transaction.
SharedDriver(g) ==
    /\ pc[g] = "s_drv"
    /\ LET h == call[g].on IN
        tx' = [tx EXCEPT ![h].effects =
                    IF call[g].op = "Exec" /\ ReadOnlyViolation(h)
                    THEN @ ELSE Append(@, call[g].stmt)]
    /\ pc' = [pc EXCEPT ![g] = "s_ret"]
    /\ ev' = NoEv
    /\ UNCHANGED <<dbConn, txBeginMtx, sqliteReserved, handed, call, nCalls>>

\* The deferred txExecQueryMtx.Unlock() and the return.
SharedReturn(g) ==
    /\ pc[g] = "s_ret"
    /\ LET h == call[g].on IN
        tx' = [tx EXCEPT ![h].holder = IF LocksExecQueryMtx(h) THEN 0 ELSE @]
    /\ call' = [call EXCEPT ![g].on = 0, ![g].stmt = 0, ![g].op = "none"]
    /\ pc' = [pc EXCEPT ![g] = IF call[g].kind = "Begin" THEN "t_use" ELSE "idle"]
    /\ ev' = [NoEv EXCEPT !.kind = "op", !.g = g, !.h = call[g].on, !.op = call[g].op]
    /\ UNCHANGED <<dbConn, txBeginMtx, sqliteReserved, handed, nCalls>>

SharedStep(g) ==
    \/ \E h \in Handles, op \in {"Query", "Exec"} : SharedCall(g, h, op)
    \/ SharedLock(g)
    \/ SharedDriver(g)
    \/ SharedReturn(g)

WriteOps == {"Exec", "ExecContextRowsAffected", "Insert", "InsertBulk",
             "Update", "UpdateBulk", "Save"}

\* ------------------------------------------------------------------ Next

\* A goroutine that works with handles from Begin, BeginRead and BeginContext.
BeginStep(g) ==
    \/ \E ro \in BOOLEAN : BeginCall(g, ro)
    \/ TxBeginLock(g)
    \/ TxBeginDriver(g)
    \/ TxBeginImmediate(g)
    \/ BeginReturn(g)
    \/ Commit(g)
    \/ Rollback(g)

HookStep(g) ==
    \/ AfterCommit(g)
    \/ AfterRollback(g)
    \/ AfterTransaction(g)

ExecTXStep(g) ==
    \/ \E ro, done \in BOOLEAN : \E ctxTX \in {0} \cup Handles : ExecTX(g, ro, done, ctxTX)
    \/ ExecTXBegun(g)
    \/ \E outcome \in JobOutcomes : JobEnd(g, outcome)

OpStep(g) ==
    \/ QueryOp(g)
    \/ ExecOp(g)
    \/ ExecRowsAffectedOp(g)
    \/ InsertOp(g)
    \/ InsertBulkOp(g)
    \/ UpdateOp(g)
    \/ UpdateBulkOp(g)
    \/ SaveOp(g)

\* Goroutines that begin, commit and roll back transactions and run ExecTX
\* against one pool handle.
Next == \E g \in Procs : BeginStep(g) \/ ExecTXStep(g)

Spec == Init /\ [][Next]_vars

\* One goroutine that also registers hooks and queries while its transaction
\* is open, and goes on using a handle whose transaction has ended.
TxNext ==
    \/ BeginStep(1)
    \/ ExecTXStep(1)
    \/ HookStep(1)
    \/ QueryOp(1)
    \/ ExecOp(1)
    \/ \E how \in EndedUses : EndedUse(1, how)

TxSpec == Init /\ [][TxNext]_vars

\* One goroutine that sends statements on the handle of its transaction.
OpsNext == BeginStep(1) \/ OpStep(1)

OpsSpec == Init /\ [][OpsNext]_vars

\* Goroutine 1 begins and ends transactions; every goroutine sends statements
\* on the handle of the open one.
ShareNext == BeginStep(1) \/ \E g \in Procs : SharedStep(g)

ShareSpec == Init /\ [][ShareNext]_vars

\* Goroutine 1 is about to call replaceArgs with a statement and arguments.
RewriteInit ==
    /\ dbConn \in {Open(drv) : drv \in Drivers}
    /\ txBeginMtx = 0
    /\ sqliteReserved = 0
    /\ tx = [h \in Handles |-> Open(dbConn.driver)]
    /\ handed = {}
    /\ pc = [g \in Procs |-> IF g = 1 THEN "r_call" ELSE "idle"]
    /\ \E sql \in Sqls, args \in ArgLists :
         call = [g \in Procs |->
                    IF g = 1
                    THEN [NoCall EXCEPT !.kind = "replaceArgs", !.sql = sql, !.args = args]
                    ELSE NoCall]
    /\ nCalls = 0
    /\ ev = NoEv

RewriteNext == ReplaceArgsCall(1)

RewriteSpec == RewriteInit /\ [][RewriteNext]_vars

\* Goroutine 1 is about to call replaceArgs with a statement that may have
\* quoted strings and with scalar arguments.
QuotedInit ==
    /\ dbConn \in {Open(drv) : drv \in Drivers}
    /\ txBeginMtx = 0
    /\ sqliteReserved = 0
    /\ tx = [h \in Handles |-> Open(dbConn.driver)]
    /\ handed = {}
    /\ pc = [g \in Procs |-> IF g = 1 THEN "r_call" ELSE "idle"]
    /\ \E sql \in QuotedSqls, args \in ScalarLists :
         call = [g \in Procs |->
                    IF g = 1
                    THEN [NoCall EXCEPT !.kind = "replaceArgs", !.sql = sql, !.args = args]
                    ELSE NoCall]
    /\ nCalls = 0
    /\ ev = NoEv

QuotedNext == ReplaceArgsCall(1)

QuotedSpec == QuotedInit /\ [][QuotedNext]_vars

\* Goroutine 1 has records and is about to call Insert, Update or Save with
\* them on the pool handle, twice.
WriteInit ==
    /\ dbConn \in {Open(drv) : drv \in Drivers}
    /\ txBeginMtx = 0
    /\ sqliteReserved = 0
    /\ tx = [h \in Handles |-> Open(dbConn.driver)]
    /\ handed = {}
    /\ pc = [g \in Procs |-> IF g = 1 THEN "w_1" ELSE "idle"]
    /\ \E d \in WriteDatas :
         call = [g \in Procs |-> IF g = 1 THEN [NoCall EXCEPT !.kind = "write", !.data = d]
                                 ELSE NoCall]
    /\ nCalls = 0
    /\ ev = NoEv

WriteNext == FirstWrite(1) \/ SecondWrite(1)

WriteSpec == WriteInit /\ [][WriteNext]_vars

\* Goroutines that only begin, commit and roll back, scheduled fairly: every
\* driver call returns, a goroutine that can run does run, and a goroutine that
\* finds the mutex free again and again gets it (sync.Mutex hands a starving
\* waiter the lock).
LiveNext == \E g \in Procs : BeginStep(g)

Fairness ==
    \A g \in Procs :
        /\ SF_vars(TxBeginLock(g))
        /\ WF_vars(TxBeginDriver(g))
        /\ WF_vars(TxBeginImmediate(g))
        /\ WF_vars(BeginReturn(g))
        /\ WF_vars(Commit(g) \/ Rollback(g))

LiveSpec == Init /\ [][LiveNext]_vars /\ Fairness

\* ---------------------------------------------------------------- claims

\* Goroutine g is inside txBeginContext.
InTxBegin(g) == pc[g] \in {"b_lock", "b_driver", "b_imm"}

\* C1: when txBeginContext returns, on an error or with a handle, the call does
\* not hold the begin mutex any more.  The code returns from a failed driver
\* begin with the mutex locked, so this does not hold.
C1_MutexReleasedOnReturn ==
    \A g \in Procs : pc[g] = "b_ret" => txBeginMtx # g

\* The read-write SQLite transactions between the return of their Begin and
\* their Commit or Rollback.
OpenWriters ==
    {h \in handed : tx[h].sqlTx /\ tx[h].txWriteMode /\ tx[h].driver = SQLITE3}

\* C2: on one SQLite pool handle at most one read-write transaction is between
\* the return of its Begin and its Commit or Rollback.
C2_OneWriter == Cardinality(OpenWriters) <= 1

\* C2: one writer holds its transaction and another writer's Begin has just
\* returned the error of BEGIN IMMEDIATE.
C2_Witness ==
    /\ ev.kind = "Begin" /\ ev.err = <<"immediate">>
    /\ \E g \in Procs \ {ev.g} : pc[g] = "t_use" /\ call[g].h \in OpenWriters

\* C3: under fair scheduling every call of Begin returns.  A goroutine that
\* calls Begin after a driver begin failed waits on the mutex forever, so this
\* does not hold.
C3_BeginReturns ==
    \A g \in Procs : InTxBegin(g) ~> ~InTxBegin(g)

\* A write operation has just returned on an active read-only handle.
ReadOnlyWrite == ev.kind = "op" /\ ev.op \in WriteOps /\ ev.active /\ ~ev.wmode

\* A query has just returned on an active read-only handle, its arguments
\* well-formed and answered by the driver with a row.
ReadOnlyQuery == ev.kind = "op" /\ ev.op = "Query" /\ ev.active /\ ~ev.wmode /\ ev.clean

\* C4, as stated: on an active read-only handle every write operation returns an
\* error and sends nothing, and Query still succeeds.  Insert, InsertBulk,
\* Update, UpdateBulk and Save of an empty slice return nil, so this does not hold.
C4_WritesRejected ==
    /\ ReadOnlyWrite => ev.err # NoErr /\ ev.sent = 0
    /\ ReadOnlyQuery => ev.err = NoErr /\ ev.sent = 1

\* C4, amended: on an active read-only handle no write operation sends a
\* statement to the driver, and every write operation returns an error unless
\* its data is a slice without elements, for which it returns nil; Query still
\* succeeds.
C4_WritesRejectedUnlessEmpty ==
    /\ ReadOnlyWrite => ev.sent = 0 /\ (ev.err = NoErr <=> ev.empty)
    /\ ReadOnlyQuery => ev.err = NoErr /\ ev.sent = 1

\* C4: Save of a record has just been refused by the read-only check.
C4_Witness ==
    ReadOnlyWrite /\ ev.op = "Save" /\ ~ev.empty /\ ev.err = <<"readonly">> /\ ev.sent = 0

\* ExecTX has just returned.
Returned == ev.kind = "ExecTX"

\* C5: when ExecTX returns after its transaction was begun, ExecTX has called
\* Commit or Rollback on it.  After a panic of job ExecTX returns having called
\* neither, so this does not hold.
C5_EndedOnReturn ==
    Returned /\ ev.begun => ev.ended \in {"Commit", "Rollback"} /\ ~tx[ev.h].sqlTx

\* The errors ExecTX returns when job returned an error: the job's error, then
\* the error of Rollback if it failed.
JobErrors == IF ev.driverOk THEN <<"job">> ELSE <<"job", "rollback">>

\* C6, as stated: when job returns an error, ExecTX calls Rollback, runs no
\* post-commit hook and returns the job's error, wrapped with the rollback
\* error when the rollback failed.  When conn.Close fails as well, its error is
\* wrapped in too, so this does not hold.
C6_JobErrorRollsBack ==
    Returned /\ ev.job = "err" =>
        /\ ev.ended = "Rollback" /\ ~tx[ev.h].sqlTx
        /\ ev.firedCommit = <<>>
        /\ ev.err = JobErrors

\* C6, amended: when job returns an error, ExecTX calls Rollback, runs no
\* post-commit hook and returns the job's error, wrapped with the rollback
\* error when the rollback failed and then with the error of conn.Close when
\* releasing the connection failed.
C6_JobErrorRollsBackCloseWrapped ==
    Returned /\ ev.job = "err" =>
        /\ ev.ended = "Rollback" /\ ~tx[ev.h].sqlTx
        /\ ev.firedCommit = <<>>
        /\ ev.err = IF ev.closeFailed THEN JobErrors \o <<"close">> ELSE JobErrors

\* C6: job registered a post-commit hook and returned an error, the rollback
\* failed too, and ExecTX has returned both errors.
C6_Witness ==
    /\ Returned /\ ev.job = "err" /\ ev.ended = "Rollback"
    /\ tx[ev.h].txAfterCommit # <<>>
    /\ ev.err = <<"job", "rollback">>

\* C7: when job panics, the panic does not leave ExecTX, and ExecTX returns an
\* error.
C7_PanicBecomesError ==
    Returned /\ ev.job = "panic" => ~ev.propagated /\ ev.err # NoErr

\* C7: job has panicked and ExecTX has returned the error made of the panic.
C7_Witness == Returned /\ ev.job = "panic" /\ ev.err = <<"panic">> /\ ~ev.propagated

\* C8: ExecTX called with a context that carries an active transaction returns
\* an error, acquires no connection, begins no transaction and does not call
\* job; the carried transaction is still active.
C8_NestedRejected ==
    /\ Returned /\ ev.ctxTXActive =>
        /\ ev.err # NoErr /\ ev.conn = 0 /\ ~ev.begun /\ ev.job = "none"
        /\ ev.ended = "none" /\ tx[ev.ctxTX].sqlTx
    /\ \A g \in Procs : call[g].kind = "ExecTX" => ~call[g].ctxTXActive

\* C8: ExecTX has refused a context that carries the transaction another
\* goroutine's job is running in.
C8_Witness ==
    /\ Returned /\ ev.ctxTXActive /\ ~ev.ctxDone /\ ev.err = <<"nested">>
    /\ \E g \in Procs \ {ev.g} : pc[g] = "x_job" /\ call[g].h = ev.ctxTX

\* C9: ExecTX called with a context that is done returns an error, acquires no
\* connection, begins no transaction and does not call job.
C9_DoneCtxRejected ==
    /\ Returned /\ ev.ctxDone =>
        ev.err # NoErr /\ ev.conn = 0 /\ ~ev.begun /\ ev.job = "none"
    /\ \A g \in Procs : call[g].kind = "ExecTX" => ~call[g].ctxDone

\* C9: ExecTX has refused a context that was done and carried no transaction.
C9_Witness == Returned /\ ev.ctxDone /\ ev.ctxTX = 0 /\ ev.err = <<"ctx done">>

\* C10: when ExecTX returns, it has called conn.Close once for the connection
\* it acquired, and never without one.
C10_ConnReleasedOnce == Returned => ev.closed = ev.conn

\* C10: job has panicked and ExecTX has returned with its connection closed.
C10_Witness == Returned /\ ev.job = "panic" /\ ev.conn = 1 /\ ev.closed = 1

\* Commit or Rollback has just returned, called directly or by ExecTX.
EndedNow == ev.ended # "none"

\* The hooks in queue q, as a set, and how often hook f is in q.
Hooks(q) == {q[i] : i \in 1..Len(q)}
Count(f, q) == Cardinality({i \in 1..Len(q) : q[i] = f})

\* Hooks are numbered as they are registered: q is in registration order.
InOrder(q) == \A i, j \in 1..Len(q) : i < j => q[i] < q[j]

\* C11: the hooks registered with AfterCommit (AfterRollback) run in the order
\* of their registration, all of them, and only after the driver's commit
\* (rollback) has returned success.
C11_HooksInOrder ==
    EndedNow =>
        /\ InOrder(ev.firedCommit) /\ InOrder(ev.firedRollback)
        /\ ev.firedCommit # <<>> \/ ev.firedRollback # <<>> => ev.called /\ ev.driverOk
        /\ ev.driverOk /\ ev.ended = "Commit" =>
                Hooks(ev.firedCommit) = Hooks(tx[ev.h].txAfterCommit)
        /\ ev.driverOk /\ ev.ended = "Rollback" =>
                Hooks(ev.firedRollback) = Hooks(tx[ev.h].txAfterRollback)

\* C11: three hooks were registered with AfterCommit and the commit has run them.
C11_Witness ==
    ev.kind = "Commit" /\ ev.driverOk /\ ev.firedCommit = <<1, 2, 3>>
        /\ tx[ev.h].txAfterRollback = <<>>

\* C12: a successful Commit runs the post-commit queue and nothing of the
\* post-rollback queue, a successful Rollback the reverse; when the driver's
\* call fails, its error is returned and no hook runs.
C12_HooksMatchOutcome ==
    EndedNow =>
        /\ ev.driverOk /\ ev.ended = "Commit" =>
                ev.firedCommit = tx[ev.h].txAfterCommit /\ ev.firedRollback = <<>>
        /\ ev.driverOk /\ ev.ended = "Rollback" =>
                ev.firedRollback = tx[ev.h].txAfterRollback /\ ev.firedCommit = <<>>
        /\ ~ev.driverOk =>
                /\ ev.firedCommit = <<>> /\ ev.firedRollback = <<>>
                /\ ev.err # NoErr
                /\ ev.kind = "Commit" => ev.err = <<"commit">>
                /\ ev.kind = "Rollback" => ev.err = <<"rollback">>

\* C12: the driver's commit has failed on a transaction with a hook in each queue.
C12_Witness ==
    /\ ev.kind = "Commit" /\ ~ev.driverOk /\ ev.err = <<"commit">>
    /\ tx[ev.h].txAfterCommit # <<>> /\ tx[ev.h].txAfterRollback # <<>>
    /\ Hooks(tx[ev.h].txAfterCommit) \cap Hooks(tx[ev.h].txAfterRollback) = {}

\* C13: AfterTransaction appends its hook to both queues, and a hook that is in
\* both queues runs once when the transaction ends by a successful Commit or
\* a successful Rollback.
C13_AfterTransactionOnce ==
    /\ ev.kind = "AfterTransaction" /\ ~ev.propagated =>
        LET qc == tx[ev.h].txAfterCommit
            qr == tx[ev.h].txAfterRollback
        IN  /\ qc # <<>> /\ qc[Len(qc)] = ev.hook /\ Count(ev.hook, qc) = 1
            /\ qr # <<>> /\ qr[Len(qr)] = ev.hook /\ Count(ev.hook, qr) = 1
    /\ EndedNow /\ ev.driverOk =>
        \A f \in Hooks(tx[ev.h].txAfterCommit) \cap Hooks(tx[ev.h].txAfterRollback) :
            Count(f, ev.firedCommit \o ev.firedRollback) = 1

\* C13: a transaction with a hook registered by AfterTransaction has been
\* rolled back, and the hook has run.
C13_Witness ==
    /\ ev.kind = "Rollback" /\ ev.driverOk
    /\ \E f \in Hooks(tx[ev.h].txAfterCommit) \cap Hooks(tx[ev.h].txAfterRollback) :
            Count(f, ev.firedRollback) = 1

\* C14: once Commit or Rollback has returned, with or without an error, the
\* handle has no active transaction; and a Commit, Rollback, AfterCommit,
\* AfterRollback or AfterTransaction on a handle without one panics, does not
\* call the driver and leaves the hook queues as they are.
C14_EndedHandleUnusable ==
    /\ [](EndedNow => ~ActiveTX(ev.h))
    /\ [][ev'.kind \in EndedUses /\ ~tx[ev'.h].sqlTx =>
            ev'.propagated /\ ~ev'.called /\ tx' = tx]_vars

\* C14: Rollback has panicked on a handle whose transaction had ended with
\* hooks registered.
C14_Witness ==
    /\ ev.kind = "Rollback" /\ ev.propagated /\ ~ev.called
    /\ ~tx[ev.h].sqlTx /\ tx[ev.h].txAfterRollback # <<>>

\* C15: the pool handle is never changed: it carries no transaction, routes to
\* the pool, has empty hook queues and its write-mode flag as Open left it.
C15_PoolHandleUnchanged ==
    /\ ~dbConn.sqlTx /\ dbConn.db = "pool"
    /\ dbConn.txAfterCommit = <<>> /\ dbConn.txAfterRollback = <<>>
    /\ dbConn.txWriteMode = Open(dbConn.driver).txWriteMode
    /\ dbConn = Open(dbConn.driver)

\* C15: a second transaction of the pool handle, begun read-write and given a
\* hook, has been committed.
C15_Witness ==
    /\ ev.kind = "Commit" /\ nCalls >= 2
    /\ tx[ev.h].txWriteMode /\ tx[ev.h].txAfterCommit # <<>>

\* A query has just returned whose statement the driver answered.
Queried == ev.kind = "op" /\ ev.op = "Query" /\ ev.iter = 1

\* C17, as stated: a query into a scalar or a single record whose result has no
\* rows returns ErrQueryReturnedZeroRows itself; a query into a slice whose
\* result has no rows returns nil and leaves the slice empty.  Scan appends to
\* the slice it is given and never clears it, so a slice that held elements
\* holds them afterwards and this does not hold.
C17_ZeroRows ==
    Queried /\ ev.rows = 0 =>
        /\ ev.dest \in {"scalar", "struct"} => ev.err = <<"zero rows">>
        /\ ev.dest = "slice" => ev.err = NoErr /\ ev.len = 0

\* C17, amended: a query into a scalar or a single record whose result has no
\* rows returns ErrQueryReturnedZeroRows itself; a query into a slice whose
\* result has no rows returns nil and leaves the slice as it was, empty if it
\* was empty.
C17_ZeroRowsSliceUnchanged ==
    Queried /\ ev.rows = 0 =>
        /\ ev.dest \in {"scalar", "struct"} => ev.err = <<"zero rows">>
        /\ ev.dest = "slice" => ev.err = NoErr /\ ev.len = ev.len0

\* C17: a query into a scalar has returned ErrQueryReturnedZeroRows.
C17_Witness ==
    Queried /\ ev.rows = 0 /\ ev.dest = "scalar" /\ ev.err = <<"zero rows">>

\* C18: when the driver handed out an iterator, QueryContext has closed it when
\* it returns, whatever Scan returned, unless the destination is a *sql.Rows:
\* then the iterator is stored there, not closed and not read.
C18_RowsClosed ==
    Queried =>
        IF ev.dest = "rows"
        THEN ev.stored /\ ev.iterClosed = 0 /\ ev.read = 0 /\ ev.err = NoErr
        ELSE ev.iterClosed = 1 /\ ~ev.stored

\* C18: a query into a struct has failed in Scan and has closed its iterator.
C18_Witness ==
    Queried /\ ev.dest = "struct" /\ ev.err = <<"scan">> /\ ev.iterClosed = 1

\* The goroutines that hold the mutex of handle h: between the return of Lock
\* and the Unlock, around the driver call.
Running(h) == {g \in Procs : pc[g] \in {"s_drv", "s_ret"} /\ call[g].on = h}

\* The goroutines whose call on handle h has not got the mutex yet.
Waiting(h) == {g \in Procs : pc[g] = "s_lock" /\ call[g].on = h}

\* Sequence q without the elements that are not in set S.
Only(q, S) == SelectSeq(q, LAMBDA x : x \in S)

\* C16: on one transaction handle at most one Query or Exec call at a time is
\* between locking and unlocking the handle's mutex, where it calls the
\* driver; the handle's holder is that call; and the driver runs the calls in
\* the order in which they got the mutex.
C16_OneAtATime ==
    \A h \in Handles :
        /\ Cardinality(Running(h)) <= 1
        /\ \A g \in Running(h) : tx[h].holder = g
        /\ Running(h) = {} => tx[h].holder = 0
        /\ tx[h].effects = Only(tx[h].acquired, Hooks(tx[h].effects))

\* C16: one goroutine is in its driver call on a handle, another waits for the
\* handle's mutex, and the driver has run an earlier call on it.
C16_Witness ==
    \E h \in Handles :
        /\ \E g \in Running(h) : pc[g] = "s_drv"
        /\ Waiting(h) # {}
        /\ tx[h].sqlTx

\* replaceArgs has just returned without an error.
Rewritten == ev.kind = "replaceArgs" /\ ev.err = NoErr

\* The pieces of kind t in the rewritten statement, in their order.
PiecesOf(t) == SelectSeq(ev.out, LAMBDA p : p.t = t)

\* C19: in DOLLAR mode the placeholders of the rewritten statement are, from
\* left to right, $1, $2, ..., $k, and the i-th stands for the i-th entry of
\* the rewritten argument list; identifiers and literals take no number.
C19_DollarNumbering ==
    Rewritten /\ tx[ev.h].PlaceholderMode = DOLLAR =>
        LET phs == PiecesOf("ph") IN
            /\ Len(phs) <= Len(ev.newArgs)
            /\ \A i \in 1..Len(phs) :
                /\ phs[i].c = "$" /\ phs[i].n = i
                /\ ev.newArgs[i] = Item(phs[i].src, phs[i].elem)
            /\ \A i \in 1..Len(ev.out) : ev.out[i].t # "ph" => ev.out[i].n = 0

\* C19: a slice written as literals and then a scalar were rewritten in DOLLAR
\* mode: the scalar's placeholder, the last piece, is the only numbered one.
C19_Witness ==
    /\ Rewritten /\ tx[ev.h].PlaceholderMode = DOLLAR
    /\ PiecesOf("lit") # <<>>
    /\ Len(PiecesOf("ph")) = 1
    /\ ev.out[Len(ev.out)].t = "ph"

\* C20: when replaceArgs accepts its input, the placeholders it wrote plus the
\* literals it wrote are as many as the scalars used at value placeholders
\* plus the elements of the slices it expanded.
C20_PlaceholderCount ==
    Rewritten =>
        Len(PiecesOf("ph")) + Len(PiecesOf("lit")) = ev.scalars + ev.elems

\* C20: a scalar and a slice expanded into placeholders were rewritten.
C20_Witness ==
    /\ Rewritten /\ ev.scalars = 1 /\ ev.elems = 1
    /\ Len(PiecesOf("ph")) = 2

\* The runes of sql from rune i on that are in a quoted string, its quotes
\* included; q is the quote that opened the string rune i is in, "" if none.
RECURSIVE Spans(_, _, _)
Spans(sql, i, q) ==
    IF i > Len(sql) THEN {}
    ELSE IF q = ""
    THEN IF sql[i] \in Quotes THEN {i} \cup Spans(sql, i + 1, sql[i])
         ELSE Spans(sql, i + 1, "")
    ELSE IF sql[i] # q THEN {i} \cup Spans(sql, i + 1, q)
    ELSE IF i + 1 <= Len(sql) /\ sql[i + 1] = q THEN {i, i + 1} \cup Spans(sql, i + 2, q)
    ELSE {i} \cup Spans(sql, i + 1, "")

\* The placeholder runes of sql outside every quoted string.
Markers(sql) ==
    {i \in 1..Len(sql) \ Spans(sql, 1, "") : sql[i] \in {PlaceholderKey, PlaceholderValue}}

\* The runes of sql that are not such a placeholder, in their order.
RECURSIVE Kept(_, _)
Kept(sql, i) ==
    IF i > Len(sql) THEN <<>>
    ELSE (IF i \in Markers(sql) THEN <<>> ELSE <<Copied(sql[i])>>) \o Kept(sql, i + 1)

\* C21: the placeholder runes inside a quoted string are copied and use no
\* argument, a doubled quote does not end the string, and the placeholders
\* outside are rewritten: the runes copied are all runes but the placeholders
\* outside quoted strings, one argument is used for each of those, and a
\* statement with no placeholder outside a quoted string comes back as it was.
C21_QuotedInert ==
    ev.kind = "replaceArgs" =>
        /\ ev.err = NoErr =>
            /\ PiecesOf("rune") = Kept(ev.sql, 1)
            /\ ev.used = Cardinality(Markers(ev.sql))
        /\ Markers(ev.sql) = {} =>
            /\ ev.err = NoErr
            /\ ev.out = [i \in 1..Len(ev.sql) |-> Copied(ev.sql[i])]
            /\ ev.newArgs = [i \in 1..Len(ev.args) |-> Item(i, 0)]

\* C21: a statement whose quoted string holds a doubled quote and then a
\* placeholder was rewritten: the placeholder was copied, no argument was used.
C21_Witness ==
    /\ Rewritten /\ ev.used = 0 /\ ev.args # <<>>
    /\ Len(ev.sql) = 4
    /\ ev.sql[1] = ev.sql[2] /\ ev.sql[2] = ev.sql[3] /\ ev.sql[1] \in Quotes
    /\ ev.sql[4] = PlaceholderValue
    /\ ev.out[4] = Copied(PlaceholderValue)

\* replaceArgs has returned from a statement whose one placeholder outside
\* quoted strings is a value placeholder, given a slice as first argument.
SliceCase ==
    /\ ev.kind = "replaceArgs"
    /\ Cardinality(Markers(ev.sql)) = 1
    /\ \A i \in Markers(ev.sql) : ev.sql[i] = PlaceholderValue
    /\ ev.args # <<>>
    /\ ev.args[1].k = "slice"

\* The pieces replaceArgs wrote that it did not copy from the statement.
Written == SelectSeq(ev.out, LAMBDA p : p.t # "rune")

\* The arguments after the first, as replaceArgs appends them when left over.
LeftOver == [p \in 1..(Len(ev.args) - 1) |-> Item(p + 1, 0)]

\* The slice of l elements was written in parentheses as l pieces of kind t,
\* and the entries items were put on the argument list.
Expanded(l, t, items) ==
    /\ ev.err = NoErr
    /\ Len(Written) = 2 * l + 1
    /\ Written[1].t = "open" /\ Written[2 * l + 1].t = "close"
    /\ \A p \in 1..l : Written[2 * p].t = t /\ Written[2 * p].elem = p
    /\ ev.newArgs = items \o LeftOver

\* C22 as stated: an empty slice is an error, a slice of up to MaxPlaceholder
\* elements becomes one placeholder and one argument per element, a longer
\* slice becomes one literal per element and no argument.
C22_SliceByLength ==
    SliceCase =>
        LET l == ev.args[1].n IN
            /\ l = 0 => ev.err # NoErr
            /\ l \in 1..tx[ev.h].MaxPlaceholder =>
                    Expanded(l, "ph", [e \in 1..l |-> Item(1, e)])
            /\ l > tx[ev.h].MaxPlaceholder => Expanded(l, "lit", <<>>)

\* C22, amended: as above, but a slice longer than MaxPlaceholder whose
\* elements are of a type that has no literal form is an error.
C22_SliceByLengthLiteralTypes ==
    SliceCase =>
        LET l == ev.args[1].n IN
            /\ l = 0 => ev.err # NoErr
            /\ l \in 1..tx[ev.h].MaxPlaceholder =>
                    Expanded(l, "ph", [e \in 1..l |-> Item(1, e)])
            /\ l > tx[ev.h].MaxPlaceholder =>
                    IF ev.args[1].lit THEN Expanded(l, "lit", <<>>)
                    ELSE ev.err = <<"slice type">>

\* C22: a slice longer than MaxPlaceholder was written as literals.
C22_Witness ==
    /\ SliceCase
    /\ ev.args[1].n > tx[ev.h].MaxPlaceholder
    /\ Expanded(ev.args[1].n, "lit", <<>>)

\* Insert, Update or Save has just returned.
WriteReturned(op) == ev.kind = "write" /\ ev.op = op

\* Statement k of the call was executed as a statement and the driver
\* reported a number of affected rows that is not 1.
NotOneRow(k) == ev.stmts[k].via = "exec" /\ ev.stmts[k].reply \notin {-1, 1}

FirstCall == call[ev.g].first

\* The second of two Save calls on the same records has returned, the first
\* had returned nil.
SavedTwice ==
    /\ WriteReturned("Save") /\ ev.nth = 2
    /\ FirstCall.op = "Save" /\ FirstCall.err = NoErr

\* Record i has one pk field, which was zero before the first call, and was
\* passed by reference.
ZeroKeyByPtr(i) ==
    /\ ev.data0.pks = 1 /\ ev.data0.byPtr
    /\ FirstCall.data0.rows[i][1] = "zero"

\* The first call sent one statement for record i, an INSERT, and every
\* statement the second call sent for it is an UPDATE of the key that INSERT
\* produced.
InsertedThenUpdated(i) ==
    \E k \in 1..Len(FirstCall.stmts) :
        /\ FirstCall.stmts[k].row = i /\ FirstCall.stmts[k].verb = "INSERT"
        /\ \A j \in 1..Len(ev.stmts) :
            ev.stmts[j].row = i =>
                /\ ev.stmts[j].verb = "UPDATE"
                /\ ev.stmts[j].where = {<<1, FirstCall.stmts[k].id>>}

\* Save of at least one record of a type without exactly one pk field fails
\* and sends nothing.
SaveNeedsOnePk ==
    WriteReturned("Save") /\ ev.data0.pks # 1 /\ ev.data0.rows # <<>> =>
        ev.err # NoErr /\ ev.stmts = <<>>

IntegerKeyGenerated(i) ==
    /\ ev.data0.kind \in IntegerKinds
    /\ \A k \in 1..Len(FirstCall.stmts) :
        FirstCall.stmts[k].row = i => FirstCall.stmts[k].id # "zero"

InsertId(i) ==
    LET k == CHOOSE k \in 1..Len(ev.stmts) : ev.stmts[k].row = i IN ev.stmts[k].id

\* C25: after an Insert that returned nil, each record of a type with one pk
\* field of an integer kind holds the generated key if it is addressable (a
\* struct passed by reference, any element of a slice), and a struct passed
\* by value is as it was.  The code assigns the key to the elements of a
\* slice only when the pk field is an int64, so this does not hold.
C25_KeyAssigned ==
    WriteReturned("Insert") /\ ev.err = NoErr =>
        /\ ev.data0.pks = 1 /\ ev.data0.kind \in IntegerKinds
                /\ (ev.data0.shape = "slice" \/ ev.data0.byPtr) =>
            \A i \in 1..Len(ev.data.rows) : ev.data.rows[i][1] = InsertId(i)
        /\ ev.data0.shape = "struct" /\ ~ev.data0.byPtr => ev.data = ev.data0

\* Record i, as it was at the call, gives Update no pk column value: every pk
\* field (if there is one) is zero and either omitempty or a pointer.
NoKeyValue(i) ==
    \A c \in 1..ev.data0.pks :
        /\ ev.data0.rows[i][c] = "zero"
        /\ ev.data0.omitempty \/ ev.data0.kind = "ptr"

SqliteWriter(g) ==
    call[g].kind \in {"Begin", "ExecTX"} /\ ~call[g].ro /\ dbConn.driver = SQLITE3

\* Such a goroutine is between locking the begin mutex and the end of its
\* ROLLBACK; BEGIN IMMEDIATE: at the driver's begin or at that statement.
InBeginPair(g) == SqliteWriter(g) /\ pc[g] \in {"b_driver", "b_imm"}

\* C27: at most one goroutine at a time is between locking the begin mutex and
\* the end of the ROLLBACK; BEGIN IMMEDIATE of a read-write SQLite
\* transaction, and it is the one that holds the mutex.
C27_BeginPairsApart ==
    \A g, q \in Procs :
        InBeginPair(g) => txBeginMtx = g /\ (InBeginPair(q) => q = g)

\* C27: a writer is at its BEGIN IMMEDIATE while another writer waits for the
\* begin mutex.
C27_Witness ==
    \E g, q \in Procs :
        /\ g # q
        /\ InBeginPair(g) /\ pc[g] = "b_imm"
        /\ SqliteWriter(q) /\ pc[q] = "b_lock"

\* Goroutine g is inside a begin that is not a read-write begin on SQLite:
\* BeginRead on SQLite, or any begin on PostgreSQL.
OtherBegin(g) ==
    /\ call[g].kind \in {"Begin", "ExecTX"}
    /\ ~SqliteWriter(g)
    /\ pc[g] \in {"b_lock", "b_driver", "b_imm"}

\* The handle h is an open read-only transaction.
OpenReadTx(h) == tx[h].sqlTx /\ ~tx[h].txWriteMode

\* Such a begin is never held up at the mutex, and a read-write begin on SQLite
\* is held up only while the mutex is locked.
PassesBeginMtx ==
    \A g \in Procs :
        pc[g] = "b_lock" /\ (SqliteWriter(g) => txBeginMtx = 0)
            => ENABLED TxBeginLock(g)

\* The steps of such a begin leave the mutex as it is.
LeavesBeginMtx ==
    \A g \in Procs : OtherBegin(g) /\ pc'[g] # pc[g] => txBeginMtx' = txBeginMtx

\* C28: BeginRead on SQLite and every begin on PostgreSQL neither lock nor wait
\* for the begin mutex, so that a read-write begin finds the mutex free
\* whatever read-only transactions are open.
C28_ReadersPassMutex == [](PassesBeginMtx) /\ [][LeavesBeginMtx]_vars

\* C28: a begin that does not take the mutex has passed it and begun its
\* transaction while another goroutine holds the mutex.
C28_Witness ==
    \E g, q \in Procs :
        /\ g # q
        /\ call[g].kind = "Begin" /\ ~SqliteWriter(g)
        /\ pc[g] = "b_ret" /\ call[g].err = <<>> /\ OpenReadTx(call[g].h)
        /\ txBeginMtx = q

\* ExecTX has returned, and the driver's commit of its transaction succeeded.
ExecTXCommitted == ev.kind = "ExecTX" /\ ev.ended = "Commit" /\ ev.driverOk

OwnHooks(seq, n) ==
    /\ \A i \in 1..Len(seq) : seq[i] \in 1..n
    /\ \A i, j \in 1..Len(seq) : i < j => seq[i] < seq[j]

\* A handle that txBeginContext is about to return has no hooks.
StartsWithoutHooks ==
    \A g \in Procs :
        pc[g] \in {"b_driver", "b_imm", "b_ret"} =>
            /\ tx[call[g].h].txAfterCommit = <<>>
            /\ tx[call[g].h].txAfterRollback = <<>>

\* A step that ends a transaction runs hooks out of one queue only, each once,
\* and only hooks registered in the transaction it ends.
RunsOwnHooksOnce ==
    ev'.kind \in {"Commit", "Rollback", "ExecTX"} =>
        /\ OwnHooks(ev'.firedCommit, call[ev'.g].ops)
        /\ OwnHooks(ev'.firedRollback, call[ev'.g].ops)
        /\ ev'.firedCommit = <<>> \/ ev'.firedRollback = <<>>

\* C30: a transaction handle starts with empty hook queues, and the end of a
\* transaction runs only hooks registered on it, each of them at most once.
C30_HooksOfOwnTransaction == [](StartsWithoutHooks) /\ [][RunsOwnHooksOnce]_vars

\* C30: after an earlier begin, a later transaction has ended and run the
\* hooks registered on it.
C30_Witness ==
    /\ nCalls = MaxCalls
    /\ ev.kind \in {"Commit", "Rollback", "ExecTX"}
    /\ Len(ev.firedCommit) + Len(ev.firedRollback) >= 2

====
